---- MODULE Spec2Model ----
(***************************************************************************)
(* Chess rule engine of src/ChessGame/Main.cpp: the Board class with its   *)
(* piece move generators, check detection, MovePiece and UndoLastMove.     *)
(***************************************************************************)
EXTENDS Integers, Sequences, FiniteSets, TLC

BOARD_SIZE == 8
TILE_SIZE == 80

(* Number of Board calls explored after each of the opening games. *)
MaxCalls == 1

(* Number of pieces set around the piece whose moves are generated. *)
MaxBlockers == 1

(* Number of ChessGame::Update calls explored after each replayed session. *)
MaxUpdates == 1

White == "White"
Black == "Black"
None == "None"

Coords == 0 .. (BOARD_SIZE - 1)

(* Vector2Int(x, y) *)
Vector2Int(px, py) == [x |-> px, y |-> py]

(* An empty unique_ptr<Piece>. *)
NullPiece ==
    [type |-> None, color |-> None, boardPosition |-> Vector2Int(0, 0), hasMoved |-> FALSE]

IsNull(p) == p.type = None

(* Piece::Piece : a freshly constructed piece has hasMoved = false. *)
Piece(t, c, pos) == [type |-> t, color |-> c, boardPosition |-> pos, hasMoved |-> FALSE]

(* PieceFactory::CreatePiece *)
CreatePiece(t, c, pos) ==
    IF t \in {"Rook", "Knight", "Bishop", "Queen", "King", "Pawn"}
    THEN Piece(t, c, pos)
    ELSE NullPiece

(* Piece::Clone (copy construction of the concrete piece). *)
Clone(p) == p

InBounds(px, py) == px >= 0 /\ px < BOARD_SIZE /\ py >= 0 /\ py < BOARD_SIZE

(* Board::Board : an 8x8 grid of empty squares, indexed squares[y][x]. *)
EmptySquares == [y \in Coords |-> [x \in Coords |-> NullPiece]]

(***************************************************************************)
(* Move generation.  Each generator returns the sequence of targets in the *)
(* order the code appends them.                                            *)
(***************************************************************************)

RECURSIVE RayMovesThroughCaptures(_, _, _, _, _, _)
(* RayMoves going on after a square held by the other colour. *)
RayMovesThroughCaptures(board, pos, color, dx, dy, step) ==
    IF step >= BOARD_SIZE THEN <<>>
    ELSE LET nx == pos.x + dx * step
             ny == pos.y + dy * step
         IN IF ~InBounds(nx, ny) THEN <<>>
            ELSE IF IsNull(board[ny][nx]) \/ board[ny][nx].color # color
                 THEN <<Vector2Int(nx, ny)>>
                      \o RayMovesThroughCaptures(board, pos, color, dx, dy, step + 1)
                 ELSE <<>>

RECURSIVE RayMoves(_, _, _, _, _, _)
(* The inner loop of Rook/Bishop/Queen::GetValidMoves for one direction. *)
RayMoves(board, pos, color, dx, dy, step) ==
    IF step >= BOARD_SIZE THEN <<>>
    ELSE LET nx == pos.x + dx * step
             ny == pos.y + dy * step
         IN IF ~InBounds(nx, ny) THEN <<>>
            ELSE IF IsNull(board[ny][nx])
                 THEN <<Vector2Int(nx, ny)>> \o RayMoves(board, pos, color, dx, dy, step + 1)
                 ELSE IF board[ny][nx].color # color
                      THEN <<Vector2Int(nx, ny)>>
                      ELSE <<>>

RECURSIVE SlideMoves(_, _, _, _)
(* The outer loop over the direction table. *)
SlideMoves(board, piece, dirs, i) ==
    IF i > Len(dirs) THEN <<>>
    ELSE RayMoves(board, piece.boardPosition, piece.color, dirs[i][1], dirs[i][2], 1)
         \o SlideMoves(board, piece, dirs, i + 1)

RookDirs == << <<1, 0>>, <<-1, 0>>, <<0, 1>>, <<0, -1>> >>
BishopDirs == << <<1, 1>>, <<1, -1>>, <<-1, 1>>, <<-1, -1>> >>
QueenDirs == RookDirs \o BishopDirs

RookMoves(piece, board) == SlideMoves(board, piece, RookDirs, 1)
BishopMoves(piece, board) == SlideMoves(board, piece, BishopDirs, 1)

(* QueenMoves with the four straight directions only. *)
QueenMovesStraight(piece, board) == SlideMoves(board, piece, RookDirs, 1)

QueenMoves(piece, board) == SlideMoves(board, piece, QueenDirs, 1)

RECURSIVE StepMovesAnyOccupant(_, _, _, _)
(* StepMoves without the colour test on an occupied target. *)
StepMovesAnyOccupant(board, piece, offs, i) ==
    IF i > Len(offs) THEN <<>>
    ELSE LET nx == piece.boardPosition.x + offs[i][1]
             ny == piece.boardPosition.y + offs[i][2]
         IN (IF InBounds(nx, ny) THEN <<Vector2Int(nx, ny)>> ELSE <<>>)
            \o StepMovesAnyOccupant(board, piece, offs, i + 1)

RECURSIVE StepMoves(_, _, _, _)
(* Knight and King: each offset is checked on its own. *)
StepMoves(board, piece, offs, i) ==
    IF i > Len(offs) THEN <<>>
    ELSE LET nx == piece.boardPosition.x + offs[i][1]
             ny == piece.boardPosition.y + offs[i][2]
             here == IF InBounds(nx, ny)
                        /\ (IsNull(board[ny][nx]) \/ board[ny][nx].color # piece.color)
                     THEN <<Vector2Int(nx, ny)>>
                     ELSE <<>>
         IN here \o StepMoves(board, piece, offs, i + 1)

KnightJumps ==
    << <<1, 2>>, <<2, 1>>, <<-1, 2>>, <<-2, 1>>,
       <<1, -2>>, <<2, -1>>, <<-1, -2>>, <<-2, -1>> >>

KingSteps ==
    << <<-1, -1>>, <<-1, 0>>, <<-1, 1>>, <<0, -1>>,
       <<0, 1>>, <<1, -1>>, <<1, 0>>, <<1, 1>> >>

KnightMoves(piece, board) == StepMoves(board, piece, KnightJumps, 1)
KingMoves(piece, board) == StepMoves(board, piece, KingSteps, 1)

(* PawnMoves with the two-step move tested apart from the one-step move. *)
PawnMovesJumping(piece, board) ==
    LET direction == IF piece.color = White THEN -1 ELSE 1
        startRow == IF piece.color = White THEN 6 ELSE 1
        x == piece.boardPosition.x
        y == piece.boardPosition.y
        one ==
            IF InBounds(x, y + direction) /\ IsNull(board[y + direction][x])
            THEN <<Vector2Int(x, y + direction)>>
            ELSE <<>>
        two ==
            IF y = startRow /\ InBounds(x, y + 2 * direction)
               /\ IsNull(board[y + 2 * direction][x])
            THEN <<Vector2Int(x, y + 2 * direction)>>
            ELSE <<>>
        capture(dx) ==
            LET nx == x + dx
                ny == y + direction
            IN IF InBounds(nx, ny) /\ ~IsNull(board[ny][nx])
                  /\ board[ny][nx].color # piece.color
               THEN <<Vector2Int(nx, ny)>>
               ELSE <<>>
    IN one \o two \o capture(-1) \o capture(1)

(* Pawn::GetValidMoves *)
PawnMoves(piece, board) ==
    LET direction == IF piece.color = White THEN -1 ELSE 1
        startRow == IF piece.color = White THEN 6 ELSE 1
        x == piece.boardPosition.x
        y == piece.boardPosition.y
        forward ==
            IF InBounds(x, y + direction) /\ IsNull(board[y + direction][x])
            THEN <<Vector2Int(x, y + direction)>>
                 \o (IF y = startRow /\ InBounds(x, y + 2 * direction)
                        /\ IsNull(board[y + 2 * direction][x])
                     THEN <<Vector2Int(x, y + 2 * direction)>>
                     ELSE <<>>)
            ELSE <<>>
        capture(dx) ==
            LET nx == x + dx
                ny == y + direction
            IN IF InBounds(nx, ny) /\ ~IsNull(board[ny][nx])
                  /\ board[ny][nx].color # piece.color
               THEN <<Vector2Int(nx, ny)>>
               ELSE <<>>
    IN forward \o capture(-1) \o capture(1)

(* The virtual call piece->GetValidMoves(board). *)
GetValidMoves(piece, board) ==
    CASE piece.type = "Rook" -> RookMoves(piece, board)
      [] piece.type = "Knight" -> KnightMoves(piece, board)
      [] piece.type = "Bishop" -> BishopMoves(piece, board)
      [] piece.type = "Queen" -> QueenMoves(piece, board)
      [] piece.type = "King" -> KingMoves(piece, board)
      [] piece.type = "Pawn" -> PawnMoves(piece, board)
      [] OTHER -> <<>>

(* Pawn::IsPromotion, Piece::IsPromotion *)
IsPromotion(piece) ==
    /\ piece.type = "Pawn"
    /\ \/ (piece.color = White /\ piece.boardPosition.y = 0)
       \/ (piece.color = Black /\ piece.boardPosition.y = 7)

Contains(moves, target) == \E i \in DOMAIN moves : moves[i] = target

(***************************************************************************)
(* Check detection.                                                        *)
(***************************************************************************)

SquareIndexes == 0 .. (BOARD_SIZE * BOARD_SIZE - 1)

(* Board::FindKing : row-major scan, (-1, -1) when no king is found. *)
FindKing(squares, color) ==
    LET kings == {i \in SquareIndexes :
                     LET p == squares[i \div BOARD_SIZE][i % BOARD_SIZE]
                     IN ~IsNull(p) /\ p.type = "King" /\ p.color = color}
    IN IF kings = {} THEN Vector2Int(-1, -1)
       ELSE LET first == CHOOSE i \in kings : \A j \in kings : i <= j
            IN Vector2Int(first % BOARD_SIZE, first \div BOARD_SIZE)

(* IsInCheck looking for attackers among the pieces of the king's own colour. *)
IsInCheckByOwnPieces(squares, color) ==
    LET kingPos == FindKing(squares, color)
    IN IF kingPos.x = -1 THEN FALSE
       ELSE \E y \in Coords : \E x \in Coords :
               /\ ~IsNull(squares[y][x])
               /\ squares[y][x].color = color
               /\ Contains(GetValidMoves(squares[y][x], squares), kingPos)

(* Board::IsInCheck *)
IsInCheck(squares, color) ==
    LET kingPos == FindKing(squares, color)
    IN IF kingPos.x = -1 THEN FALSE
       ELSE \E y \in Coords : \E x \in Coords :
               /\ ~IsNull(squares[y][x])
               /\ squares[y][x].color # color
               /\ Contains(GetValidMoves(squares[y][x], squares), kingPos)

RECURSIVE TryMovesKeepsPosition(_, _, _, _, _, _)
(* TryMoves without the restore of boardPosition after a simulated move. *)
TryMovesKeepsPosition(board, x, y, moves, i, color) ==
    IF i > Len(moves) THEN [result |-> FALSE, squares |-> board]
    ELSE LET move == moves[i]
             originalTarget == board[move.y][move.x]
             b1 == [board EXCEPT ![y][x].boardPosition = move]
             b2 == [b1 EXCEPT ![move.y][move.x] = b1[y][x]]
             b3 == [b2 EXCEPT ![y][x] = NullPiece]
             stillInCheck == IsInCheck(b3, color)
             b4 == [b3 EXCEPT ![y][x] = b3[move.y][move.x]]
             b6 == [b4 EXCEPT ![move.y][move.x] = originalTarget]
         IN IF ~stillInCheck
            THEN [result |-> TRUE, squares |-> b6]
            ELSE TryMovesKeepsPosition(b6, x, y, moves, i + 1, color)

RECURSIVE TryMoves(_, _, _, _, _, _)
(* Board::HasLegalMoves, the loop over one piece's moves: simulate, test,  *)
(* restore.  Returns the answer and the squares the loop leaves behind.    *)
TryMoves(board, x, y, moves, i, color) ==
    IF i > Len(moves) THEN [result |-> FALSE, squares |-> board]
    ELSE LET move == moves[i]
             originalTarget == board[move.y][move.x]
             originalPos == board[y][x].boardPosition
             b1 == [board EXCEPT ![y][x].boardPosition = move]
             b2 == [b1 EXCEPT ![move.y][move.x] = b1[y][x]]
             b3 == [b2 EXCEPT ![y][x] = NullPiece]
             stillInCheck == IsInCheck(b3, color)
             b4 == [b3 EXCEPT ![y][x] = b3[move.y][move.x]]
             b5 == [b4 EXCEPT ![y][x].boardPosition = originalPos]
             b6 == [b5 EXCEPT ![move.y][move.x] = originalTarget]
         IN IF ~stillInCheck
            THEN [result |-> TRUE, squares |-> b6]
            ELSE TryMoves(b6, x, y, moves, i + 1, color)

RECURSIVE ScanRow(_, _, _, _)
(* Board::HasLegalMoves, the inner loop over the squares of row y. *)
ScanRow(board, y, x, color) ==
    IF x >= BOARD_SIZE THEN [result |-> FALSE, squares |-> board]
    ELSE IF ~IsNull(board[y][x]) /\ board[y][x].color = color
         THEN LET r == TryMoves(board, x, y, GetValidMoves(board[y][x], board), 1, color)
              IN IF r.result THEN r ELSE ScanRow(r.squares, y, x + 1, color)
         ELSE ScanRow(board, y, x + 1, color)

RECURSIVE ScanSquares(_, _, _)
(* Board::HasLegalMoves, the outer loop over the rows. *)
ScanSquares(board, y, color) ==
    IF y >= BOARD_SIZE THEN [result |-> FALSE, squares |-> board]
    ELSE LET r == ScanRow(board, y, 0, color)
         IN IF r.result THEN r ELSE ScanSquares(r.squares, y + 1, color)

(* Board::HasLegalMoves : [result, squares]. *)
HasLegalMoves(squares, color) == ScanSquares(squares, 0, color)

(***************************************************************************)
(* The board and its two mutating operations.                              *)
(***************************************************************************)

(* HandlePromotion turning the pawn itself into a queen: it keeps hasMoved. *)
HandlePromotionInPlace(squares, pos) ==
    [squares EXCEPT ![pos.y][pos.x].type = "Queen"]

(* Board::HandlePromotion *)
HandlePromotion(squares, pos) ==
    [squares EXCEPT ![pos.y][pos.x] = CreatePiece("Queen", squares[pos.y][pos.x].color, pos)]

Opposite(color) == IF color = White THEN Black ELSE White

(* Board::MoveCommand::MoveCommand *)
MoveCommand(f, t, moved, captured, movedStatus, promoted, turn) ==
    [from |-> f, to |-> t, movedPiece |-> moved, capturedPiece |-> captured,
     wasMoved |-> movedStatus, promotionOccurred |-> promoted, previousTurn |-> turn]

(* The outcome of a MovePiece call: the board fields it leaves, its return  *)
(* value, and which return statement was taken.                            *)
Outcome(sq, turn, over, win, hist, res, why) ==
    [squares |-> sq, currentTurn |-> turn, gameOver |-> over, winner |-> win,
     history |-> hist, result |-> res, reason |-> why]

Rejected(b, why) ==
    Outcome(b.squares, b.currentTurn, b.gameOver, b.winner, b.history, "Invalid", why)

(* RolledBack without the restore of the piece's boardPosition. *)
RolledBackKeepsPosition(sq2, from, to, originalPos, originalTarget) ==
    LET s1 == [sq2 EXCEPT ![from.y][from.x] = sq2[to.y][to.x]]
    IN [s1 EXCEPT ![to.y][to.x] = originalTarget]

(* RolledBack leaving the to square empty. *)
RolledBackDropsTarget(sq2, from, to, originalPos, originalTarget) ==
    LET s1 == [sq2 EXCEPT ![from.y][from.x] = sq2[to.y][to.x]]
        s2 == [s1 EXCEPT ![from.y][from.x].boardPosition = originalPos]
    IN [s2 EXCEPT ![to.y][to.x] = NullPiece]

(* Board::MovePiece, lines 477-499: apply the move, promote, and roll back *)
(* when the mover's king is attacked.                                      *)
RolledBack(sq2, from, to, originalPos, originalTarget) ==
    LET s1 == [sq2 EXCEPT ![from.y][from.x] = sq2[to.y][to.x]]
        s2 == [s1 EXCEPT ![from.y][from.x].boardPosition = originalPos]
    IN [s2 EXCEPT ![to.y][to.x] = originalTarget]

(* Classify testing inCheck before the side's moves. *)
ClassifyCheckFirst(inCheck, hasMoves) ==
    IF inCheck THEN "Check"
    ELSE IF ~hasMoves THEN "Stalemate"
    ELSE "Success"

(* Board::MovePiece, lines 512-529: classify the new side to move. *)
Classify(inCheck, hasMoves) ==
    IF inCheck /\ ~hasMoves THEN "Checkmate"
    ELSE IF ~inCheck /\ ~hasMoves THEN "Stalemate"
    ELSE IF inCheck THEN "Check"
    ELSE "Success"

(* Classified naming the side to move, the mated side, as the winner. *)
ClassifiedWinnerToMove(sq, turn, over, win, hist, res) ==
    CASE res = "Checkmate" -> Outcome(sq, turn, TRUE, turn, hist, res, "committed")
      [] res = "Stalemate" -> Outcome(sq, turn, TRUE, None, hist, res, "committed")
      [] OTHER -> Outcome(sq, turn, over, win, hist, res, "committed")

(* Board::MovePiece, lines 515-529: the game-over fields and the result. *)
Classified(sq, turn, over, win, hist, res) ==
    CASE res = "Checkmate" -> Outcome(sq, turn, TRUE, Opposite(turn), hist, res, "committed")
      [] res = "Stalemate" -> Outcome(sq, turn, TRUE, None, hist, res, "committed")
      [] OTHER -> Outcome(sq, turn, over, win, hist, res, "committed")

(* Committed leaving currentTurn as it was. *)
CommittedKeepsTurn(b, sq, turn, cmd, inCheck, legal) ==
    Classified(legal.squares, b.currentTurn, b.gameOver, b.winner, Append(b.history, cmd),
               Classify(inCheck, legal.result))

(* Board::MovePiece, lines 502-529: flip the turn, push the record, classify. *)
Committed(b, sq, turn, cmd, inCheck, legal) ==
    Classified(legal.squares, turn, b.gameOver, b.winner, Append(b.history, cmd),
               Classify(inCheck, legal.result))

(* Board::MovePiece, lines 468-474 and 502-513: the history record of the *)
(* applied move and the commit.                                            *)
CommitMove(b, from, to, piece, sq, isPromotion) ==
    Committed(b, sq, Opposite(b.currentTurn),
              MoveCommand(from, to, Clone(piece),
                          IF ~IsNull(b.squares[to.y][to.x])
                          THEN Clone(b.squares[to.y][to.x])
                          ELSE NullPiece,
                          piece.hasMoved, isPromotion, b.currentTurn),
              IsInCheck(sq, Opposite(b.currentTurn)),
              HasLegalMoves(sq, Opposite(b.currentTurn)))

(* Board::MovePiece, lines 493-529: roll back or commit the applied move. *)
Applied(b, from, to, piece, sq, isPromotion) ==
    IF IsInCheck(sq, b.currentTurn)
    THEN Outcome(RolledBack(sq, from, to, piece.boardPosition, b.squares[to.y][to.x]),
                 b.currentTurn, b.gameOver, b.winner, b.history, "Invalid", "selfCheck")
    ELSE CommitMove(b, from, to, piece, sq, isPromotion)

(* Board::MovePiece, lines 477-490: relocate the piece and promote. *)
Relocated(squares, from, to, moving) ==
    LET sq0 == [squares EXCEPT ![to.y][to.x] = moving]
        sq1 == [sq0 EXCEPT ![from.y][from.x] = NullPiece]
    IN IF IsPromotion(moving) THEN HandlePromotion(sq1, to) ELSE sq1

(* Board::MovePiece, lines 450-529: what follows the gameOver test. *)
MovePieceInPlay(b, from, to) ==
    IF ~InBounds(from.x, from.y) \/ ~InBounds(to.x, to.y) THEN Rejected(b, "bounds")
    ELSE IF IsNull(b.squares[from.y][from.x]) THEN Rejected(b, "empty")
    ELSE LET piece == b.squares[from.y][from.x]
             moving == [piece EXCEPT !.boardPosition = to, !.hasMoved = TRUE]
         IN IF piece.color # b.currentTurn THEN Rejected(b, "turn")
            ELSE IF ~Contains(GetValidMoves(piece, b.squares), to) THEN Rejected(b, "notValid")
            ELSE Applied(b, from, to, piece, Relocated(b.squares, from, to, moving),
                         IsPromotion(moving))

(* MovePiece without the gameOver test. *)
MovePieceIgnoringGameOver(b, from, to) == MovePieceInPlay(b, from, to)

(* Board::MovePiece *)
MovePieceRun(b, from, to) ==
    IF b.gameOver THEN Rejected(b, "gameOver") ELSE MovePieceInPlay(b, from, to)

(* Undo leaving the destination square empty. *)
UndoDropsCaptured(b, cmd) ==
    LET s1 == [b.squares EXCEPT ![cmd.from.y][cmd.from.x] = cmd.movedPiece]
        s2 == [s1 EXCEPT ![cmd.from.y][cmd.from.x].boardPosition = cmd.from]
        s3 == [s2 EXCEPT ![cmd.from.y][cmd.from.x].hasMoved = cmd.wasMoved]
        s4 == [s3 EXCEPT ![cmd.to.y][cmd.to.x] = NullPiece]
    IN [squares |-> s4, currentTurn |-> cmd.previousTurn, gameOver |-> FALSE,
        winner |-> None, history |-> b.history]

(* Undo leaving currentTurn as it is. *)
UndoKeepsTurn(b, cmd) ==
    LET s1 == [b.squares EXCEPT ![cmd.from.y][cmd.from.x] = cmd.movedPiece]
        s2 == [s1 EXCEPT ![cmd.from.y][cmd.from.x].boardPosition = cmd.from]
        s3 == [s2 EXCEPT ![cmd.from.y][cmd.from.x].hasMoved = cmd.wasMoved]
        s4 == [s3 EXCEPT ![cmd.to.y][cmd.to.x] = cmd.capturedPiece]
        s5 == IF ~IsNull(s4[cmd.to.y][cmd.to.x])
              THEN [s4 EXCEPT ![cmd.to.y][cmd.to.x].boardPosition = cmd.to]
              ELSE s4
    IN [squares |-> s5, currentTurn |-> b.currentTurn, gameOver |-> FALSE,
        winner |-> None, history |-> b.history]

(* Board::MoveCommand::Undo *)
Undo(b, cmd) ==
    LET s1 == [b.squares EXCEPT ![cmd.from.y][cmd.from.x] = cmd.movedPiece]
        s2 == [s1 EXCEPT ![cmd.from.y][cmd.from.x].boardPosition = cmd.from]
        s3 == [s2 EXCEPT ![cmd.from.y][cmd.from.x].hasMoved = cmd.wasMoved]
        s4 == [s3 EXCEPT ![cmd.to.y][cmd.to.x] = cmd.capturedPiece]
        s5 == IF ~IsNull(s4[cmd.to.y][cmd.to.x])
              THEN [s4 EXCEPT ![cmd.to.y][cmd.to.x].boardPosition = cmd.to]
              ELSE s4
    IN [squares |-> s5, currentTurn |-> cmd.previousTurn, gameOver |-> FALSE,
        winner |-> None, history |-> b.history]

(* UndoLastMove without the test for an empty history: it reports success  *)
(* and resets the fields Undo resets.                                      *)
UndoLastMoveUnguarded(b) ==
    IF b.history = <<>>
    THEN [board |-> [b EXCEPT !.currentTurn = White, !.gameOver = FALSE, !.winner = None],
          result |-> TRUE]
    ELSE LET command == b.history[Len(b.history)]
             undone == Undo(b, command)
         IN [board |-> [undone EXCEPT !.history = SubSeq(b.history, 1, Len(b.history) - 1)],
             result |-> TRUE]

(* Board::UndoLastMove : [the board fields, the returned bool]. *)
UndoLastMoveRun(b) ==
    IF b.history = <<>>
    THEN [board |-> b, result |-> FALSE]
    ELSE LET command == b.history[Len(b.history)]
             undone == Undo(b, command)
         IN [board |-> [undone EXCEPT !.history = SubSeq(b.history, 1, Len(b.history) - 1)],
             result |-> TRUE]

(* GetPieceAt answering for the nearest square when pos is off the board. *)
GetPieceAtClamped(b, pos) ==
    LET cx == IF pos.x < 0 THEN 0 ELSE IF pos.x >= BOARD_SIZE THEN BOARD_SIZE - 1 ELSE pos.x
        cy == IF pos.y < 0 THEN 0 ELSE IF pos.y >= BOARD_SIZE THEN BOARD_SIZE - 1 ELSE pos.y
    IN b.squares[cy][cx]

(* Board::GetPieceAt : the piece on pos, NullPiece for nullptr. *)
GetPieceAtRun(b, pos) ==
    IF ~InBounds(pos.x, pos.y) THEN NullPiece ELSE b.squares[pos.y][pos.x]

(***************************************************************************)
(* Construction and the starting positions.                                *)
(***************************************************************************)

BackRank == <<"Rook", "Knight", "Bishop", "Queen", "King", "Bishop", "Knight", "Rook">>

(* Initialize with the colours exchanged: White on rows 0 and 1. *)
InitializeMirrored(squares) ==
    [y \in Coords |->
        [x \in Coords |->
            CASE y = 1 -> CreatePiece("Pawn", White, Vector2Int(x, 1))
              [] y = 0 -> CreatePiece(BackRank[x + 1], White, Vector2Int(x, 0))
              [] y = 6 -> CreatePiece("Pawn", Black, Vector2Int(x, 6))
              [] y = 7 -> CreatePiece(BackRank[x + 1], Black, Vector2Int(x, 7))
              [] OTHER -> squares[y][x]]]

(* Board::Initialize on a freshly constructed board. *)
Initialize(squares) ==
    [y \in Coords |->
        [x \in Coords |->
            CASE y = 1 -> CreatePiece("Pawn", Black, Vector2Int(x, 1))
              [] y = 0 -> CreatePiece(BackRank[x + 1], Black, Vector2Int(x, 0))
              [] y = 6 -> CreatePiece("Pawn", White, Vector2Int(x, 6))
              [] y = 7 -> CreatePiece(BackRank[x + 1], White, Vector2Int(x, 7))
              [] OTHER -> squares[y][x]]]

(* Board::Board followed by Initialize (ChessGame::Init). *)
NewBoard ==
    [squares |-> Initialize(EmptySquares), currentTurn |-> White, gameOver |-> FALSE,
     winner |-> None, history |-> <<>>]

BoardOf(o) ==
    [squares |-> o.squares, currentTurn |-> o.currentTurn, gameOver |-> o.gameOver,
     winner |-> o.winner, history |-> o.history]

(***************************************************************************)
(* The state machine: a board driven by MovePiece and UndoLastMove calls.  *)
(* last describes the latest call, pre the state that call was made in.    *)
(***************************************************************************)

VARIABLES squares, currentTurn, gameOver, winner, history, calls, last, pre,
          trace, positions, returned, selectedSquare, pieceSelected, statusMessage

vars == <<squares, currentTurn, gameOver, winner, history, calls, last, pre,
          trace, positions, returned, selectedSquare, pieceSelected, statusMessage>>

Board ==
    [squares |-> squares, currentTurn |-> currentTurn, gameOver |-> gameOver,
     winner |-> winner, history |-> history]

Squares == {Vector2Int(x, y) : x \in Coords, y \in Coords}

(* What a call's argument points at, as the caller sees it before the call. *)
KindOf(b, pos) ==
    IF ~(pos.x \in Coords /\ pos.y \in Coords) THEN "off"
    ELSE IF b.squares[pos.y][pos.x].type = None THEN "empty"
    ELSE IF b.squares[pos.y][pos.x].color = b.currentTurn THEN "own"
    ELSE "opponent"

NoSquare == Vector2Int(-1, -1)

NoCall ==
    [op |-> "Initialize", result |-> "None", reason |-> "None",
     from |-> NoSquare, to |-> NoSquare, fromKind |-> "None", toKind |-> "None"]

(* The call MovePiece(from, to) made in board b, with outcome o.  The      *)
(* arguments are kept when the move was applied to the squares.            *)
MoveCall(b, from, to, o) ==
    [op |-> "MovePiece", result |-> o.result, reason |-> o.reason,
     from |-> IF o.reason \in {"selfCheck", "committed"} THEN from ELSE NoSquare,
     to |-> IF o.reason \in {"selfCheck", "committed"} THEN to ELSE NoSquare,
     fromKind |-> KindOf(b, from),
     toKind |-> IF KindOf(b, from) = "own" THEN KindOf(b, to) ELSE "any"]

UndoCall(u) ==
    [NoCall EXCEPT !.op = "UndoLastMove", !.result = IF u.result THEN "true" ELSE "false"]

(* The state a call leaves: the board, the call, and the state before it.  *)
(* trace lists the calls made since Initialize.  positions[i], for i up to *)
(* the size of the history, is the board the i-th recorded move was made   *)
(* in; the entries after those belong to the moves undone since.           *)
AfterCall(st, board, call) ==
    [board |-> board, last |-> call,
     pre |-> [board |-> st.board, last |-> st.last, before |-> st.pre.board],
     trace |-> Append(st.trace, call),
     positions |-> IF call.op = "MovePiece" /\ call.reason = "committed"
                   THEN Append(SubSeq(st.positions, 1, Len(st.board.history)), st.board)
                   ELSE st.positions,
     returned |-> call.result]

AfterMove(st, from, to, o) == AfterCall(st, BoardOf(o), MoveCall(st.board, from, to, o))

AfterUndo(st, u) == AfterCall(st, u.board, UndoCall(u))

(* The call GetPieceAt(pos) made in board b. *)
PieceCall(b, pos) ==
    [NoCall EXCEPT !.op = "GetPieceAt", !.from = pos, !.fromKind = KindOf(b, pos)]

(* The call HasLegalMoves(color) made in board b, with answer r. *)
LegalMovesCall(b, color, r) ==
    [NoCall EXCEPT !.op = "HasLegalMoves",
                   !.result = IF r.result THEN "true" ELSE "false",
                   !.fromKind = IF color = b.currentTurn THEN "own" ELSE "opponent"]

(* The state a query leaves: returned is the value it gave back. *)
AfterQuery(st, board, call, value) ==
    [AfterCall(st, board, call) EXCEPT !.returned = value]

(* ChessGame::Init : a new board, no call made yet. *)
NewGame ==
    [board |-> NewBoard, last |-> NoCall,
     pre |-> [board |-> NewBoard, last |-> NoCall, before |-> NewBoard],
     trace |-> <<>>, positions |-> <<>>, returned |-> "None"]

RECURSIVE Play(_, _)
(* The state after the calls of line that st has not made yet: <<>> stands *)
(* for an UndoLastMove call, <<from.x, from.y, to.x, to.y>> for MovePiece. *)
Play(st, line) ==
    IF Len(st.trace) >= Len(line) THEN st
    ELSE LET call == line[Len(st.trace) + 1]
         IN IF call = <<>>
            THEN Play(AfterUndo(st, UndoLastMoveRun(st.board)), line)
            ELSE Play(AfterMove(st, Vector2Int(call[1], call[2]), Vector2Int(call[3], call[4]),
                                MovePieceRun(st.board, Vector2Int(call[1], call[2]),
                                             Vector2Int(call[3], call[4]))),
                      line)

(* Games played on a new board. *)
FoolsMateLine == << <<5, 6, 5, 5>>, <<4, 1, 4, 3>>, <<6, 6, 6, 4>> >>
FoolsMate == FoolsMateLine \o << <<3, 0, 7, 4>> >>

(* A white pawn reaches (7, 1) and can capture on (6, 0). *)
PromotionLine ==
    << <<7, 6, 7, 4>>, <<6, 1, 6, 3>>, <<7, 4, 6, 3>>, <<7, 1, 7, 2>>,
       <<6, 3, 7, 2>>, <<1, 0, 2, 2>>, <<7, 2, 7, 1>>, <<2, 2, 3, 4>> >>
Promoted == PromotionLine \o << <<7, 1, 6, 0>> >>

(* The same, and the black knight gives check from (5, 5). *)
CheckedLine == PromotionLine \o << <<0, 6, 0, 5>>, <<3, 4, 5, 5>> >>
CheckedPromotion == CheckedLine \o << <<7, 1, 6, 0>> >>

(* Ten moves to stalemate: the last is the queen from (2, 0) to (4, 2). *)
StalemateLine ==
    << <<4, 6, 4, 5>>, <<0, 1, 0, 3>>, <<3, 7, 7, 3>>, <<0, 0, 0, 2>>,
       <<7, 3, 0, 3>>, <<7, 1, 7, 3>>, <<7, 6, 7, 4>>, <<0, 2, 7, 2>>,
       <<0, 3, 2, 1>>, <<5, 1, 5, 2>>, <<2, 1, 3, 1>>, <<4, 0, 5, 1>>,
       <<3, 1, 1, 1>>, <<3, 0, 3, 5>>, <<1, 1, 1, 0>>, <<3, 5, 7, 1>>,
       <<1, 0, 2, 0>>, <<5, 1, 6, 2>> >>
Stalemated == StalemateLine \o << <<2, 0, 4, 2>> >>

(* The first move, and the first two moves, of FoolsMateLine. *)
FoolsMateOpening == SubSeq(FoolsMateLine, 1, 1)
FoolsMateReply == SubSeq(FoolsMateLine, 1, 2)

(* A black pawn reaches (0, 6) and can capture on (1, 7). *)
BlackPromotionLine ==
    << <<7, 6, 7, 5>>, <<0, 1, 0, 3>>, <<1, 6, 1, 4>>, <<0, 3, 1, 4>>,
       <<7, 5, 7, 4>>, <<1, 4, 1, 5>>, <<7, 4, 7, 3>>, <<1, 5, 0, 6>>,
       <<7, 3, 7, 2>> >>

(* Games ending in UndoLastMove calls: one move taken back; the mate    *)
(* taken back; and, after the promotion that was rolled back, White     *)
(* takes the knight on (5, 5) and that capture is taken back.           *)
Retracted == << <<4, 6, 4, 4>>, <<>> >>
MateRetracted == FoolsMate \o << <<>> >>
Unwound == CheckedPromotion \o << <<6, 6, 5, 5>>, <<>> >>

(* A white pawn reaches (5, 1), guarded by the bishop on (2, 4), with the   *)
(* black king in front of it on (5, 0); the black bishop gives check from  *)
(* (1, 4) and the capture (5, 1) to (6, 0) is tried and rolled back.  In   *)
(* Stranded the bishop's move is then taken back.                          *)
StrandingLine ==
    << <<4, 6, 4, 4>>, <<4, 1, 4, 3>>, <<5, 7, 2, 4>>, <<5, 0, 2, 3>>,
       <<3, 6, 3, 4>>, <<4, 0, 5, 0>>, <<6, 6, 6, 4>>, <<0, 1, 0, 2>>,
       <<6, 4, 6, 3>>, <<0, 2, 0, 3>>, <<6, 3, 6, 2>>, <<0, 3, 0, 4>>,
       <<6, 2, 5, 1>>, <<2, 3, 1, 4>>, <<5, 1, 6, 0>> >>
Stranded == StrandingLine \o << <<>> >>

(* The same game with a quiet move of each side before the bishop's check: *)
(* after the capture that is rolled back the check and White's quiet move  *)
(* are taken back, which leaves White to move.  In KingTaken White then    *)
(* moves from (5, 1) to (5, 0).                                            *)
KingTakingLine ==
    SubSeq(StrandingLine, 1, 13)
    \o << <<0, 4, 0, 5>>, <<7, 6, 7, 5>>, <<2, 3, 1, 4>>, <<5, 1, 6, 0>>, <<>>, <<>> >>
KingTaken == KingTakingLine \o << <<5, 1, 5, 0>> >>

Lines ==
    {<<>>, FoolsMateOpening, FoolsMateReply, FoolsMateLine, FoolsMate,
     PromotionLine, Promoted, CheckedLine, CheckedPromotion, BlackPromotionLine,
     StalemateLine, Stalemated, Retracted, MateRetracted, Unwound,
     StrandingLine, Stranded, KingTakingLine, KingTaken}

StartStates == {Play(NewGame, line) : line \in Lines}

(* Arguments of the calls.  Every (from, to) with to among the moves       *)
(* generated for the piece on from, of either colour: these are all the    *)
(* calls that get past the validMoves test of MovePiece.  And every pair   *)
(* of probe points, whatever the position: four points off the board and   *)
(* four squares.                                                           *)
OffBoard == {Vector2Int(-1, 3), Vector2Int(8, 3), Vector2Int(3, -1), Vector2Int(3, 8)}
ProbeSquares == {Vector2Int(0, 7), Vector2Int(4, 6), Vector2Int(4, 4), Vector2Int(3, 1)}
Probes == OffBoard \cup ProbeSquares

MovesFrom(f, moves) == {<<f, moves[i]>> : i \in DOMAIN moves}

CallArguments(sq) ==
    (Probes \X Probes)
    \cup UNION {MovesFrom(f, GetValidMoves(sq[f.y][f.x], sq)) : f \in Squares}

State ==
    [board |-> Board, last |-> last, pre |-> pre, trace |-> trace, positions |-> positions,
     returned |-> returned]

Becomes(st) ==
    /\ squares' = st.board.squares
    /\ currentTurn' = st.board.currentTurn
    /\ gameOver' = st.board.gameOver
    /\ winner' = st.board.winner
    /\ history' = st.board.history
    /\ last' = st.last
    /\ pre' = st.pre
    /\ trace' = st.trace
    /\ positions' = st.positions
    /\ returned' = st.returned
    /\ UNCHANGED <<selectedSquare, pieceSelected, statusMessage>>

(* ChessGame::ChessGame : no square selected, an empty status message. *)
NoSelection ==
    /\ selectedSquare = NoSquare
    /\ pieceSelected = FALSE
    /\ statusMessage = ""

Init ==
    /\ \E st \in StartStates :
          /\ squares = st.board.squares
          /\ currentTurn = st.board.currentTurn
          /\ gameOver = st.board.gameOver
          /\ winner = st.board.winner
          /\ history = st.board.history
          /\ last = st.last
          /\ pre = st.pre
          /\ trace = st.trace
          /\ positions = st.positions
          /\ returned = st.returned
    /\ calls = 0
    /\ NoSelection

(* A call board.MovePiece(from, to). *)
MovePiece(from, to) ==
    /\ calls < MaxCalls
    /\ \E o \in {MovePieceRun(Board, from, to)} : Becomes(AfterMove(State, from, to, o))
    /\ calls' = calls + 1

(* A call board.UndoLastMove(). *)
UndoLastMove ==
    /\ calls < MaxCalls
    /\ \E u \in {UndoLastMoveRun(Board)} : Becomes(AfterUndo(State, u))
    /\ calls' = calls + 1

(* A call board.GetPieceAt(pos). *)
GetPieceAt(pos) ==
    /\ calls < MaxCalls
    /\ Becomes(AfterQuery(State, Board, PieceCall(Board, pos), GetPieceAtRun(Board, pos)))
    /\ calls' = calls + 1

(* A call board.HasLegalMoves(color). *)
HasLegalMovesQuery(color) ==
    /\ calls < MaxCalls
    /\ \E r \in {HasLegalMoves(squares, color)} :
          Becomes(AfterQuery(State, [Board EXCEPT !.squares = r.squares],
                             LegalMovesCall(Board, color, r), r.result))
    /\ calls' = calls + 1

Next ==
    \/ \E a \in CallArguments(squares) : MovePiece(a[1], a[2])
    \/ UndoLastMove
    \/ \E color \in {White, Black} : HasLegalMovesQuery(color)
    \/ \E pos \in Probes : GetPieceAt(pos)

Spec == Init /\ [][Next]_vars

(***************************************************************************)
(* The move generators on their own: GetValidMoves is called on a piece of *)
(* a board that holds that piece and others near it, or of a board reached *)
(* in one of the games.                                                    *)
(***************************************************************************)

PieceTypes == {"Rook", "Knight", "Bishop", "Queen", "King", "Pawn"}

(* The squares the generated piece stands on: corners, edges, the pawns'   *)
(* start rows and last ranks, and the middle of the board.                 *)
TestSquares ==
    {Vector2Int(0, 0), Vector2Int(7, 7), Vector2Int(0, 4), Vector2Int(4, 7),
     Vector2Int(2, 1), Vector2Int(5, 6), Vector2Int(3, 3)}

(* The squares at most two steps away from p. *)
Near(p) ==
    {v \in Squares : v # p /\ v.x - p.x \in -2 .. 2 /\ v.y - p.y \in -2 .. 2}

RECURSIVE Placements(_, _)
(* The sets of at most k <<square, colour>> pairs on distinct squares of S. *)
Placements(S, k) ==
    IF k = 0 THEN {{}}
    ELSE LET fewer == Placements(S, k - 1)
         IN fewer \cup
            UNION {{P \cup {<<v, c>>} : v \in S \ {a[1] : a \in P}, c \in {White, Black}} :
                   P \in {Q \in fewer : Cardinality(Q) = k - 1}}

(* A board built through the factory: t of colour c on p, and a pawn of    *)
(* the colour P gives on each square of P.                                 *)
Arranged(t, c, p, P) ==
    [y \in Coords |->
        [x \in Coords |->
            IF Vector2Int(x, y) = p THEN CreatePiece(t, c, p)
            ELSE IF <<Vector2Int(x, y), White>> \in P
                 THEN CreatePiece("Pawn", White, Vector2Int(x, y))
            ELSE IF <<Vector2Int(x, y), Black>> \in P
                 THEN CreatePiece("Pawn", Black, Vector2Int(x, y))
            ELSE NullPiece]]

GeneratorInit ==
    /\ \/ \E p \in TestSquares : \E P \in Placements(Near(p), MaxBlockers) :
             \E t \in PieceTypes : \E c \in {White, Black} :
                 squares = Arranged(t, c, p, P)
       \/ \E st \in StartStates : squares = st.board.squares
    /\ currentTurn = White
    /\ gameOver = FALSE
    /\ winner = None
    /\ history = <<>>
    /\ calls = 0
    /\ last = NoCall
    /\ pre = [board |-> Board, last |-> NoCall, before |-> Board]
    /\ trace = <<>>
    /\ positions = <<>>
    /\ returned = "None"
    /\ NoSelection

(* The call GetValidMoves on the piece standing on pos. *)
MovesCall(b, pos) ==
    [NoCall EXCEPT !.op = "GetValidMoves", !.from = pos, !.fromKind = KindOf(b, pos)]

(* A call squares[pos.y][pos.x]->GetValidMoves(squares), made once on each *)
(* board: the call changes nothing a second call could see.                *)
GetValidMovesQuery(pos) ==
    /\ trace = <<>>
    /\ ~IsNull(squares[pos.y][pos.x])
    /\ Becomes(AfterQuery(State, Board, MovesCall(Board, pos),
                          GetValidMoves(squares[pos.y][pos.x], squares)))
    /\ calls' = calls + 1

GeneratorNext == \E pos \in Squares : GetValidMovesQuery(pos)

GeneratorSpec == GeneratorInit /\ [][GeneratorNext]_vars

(***************************************************************************)
(* The presentation layer: ChessGame::Update, called once a frame with the *)
(* keyboard and mouse state raylib reports for that frame.                 *)
(***************************************************************************)

(* C++ integer division, which truncates towards zero. *)
TruncDiv(a, b) == IF a >= 0 THEN a \div b ELSE -((-a) \div b)

(* ChessGame::Update, lines 585-592. *)
GameOverMessage(b) ==
    IF b.winner = None THEN "Stalemate! Game ended in a draw."
    ELSE IF b.winner = White THEN "Checkmate! White wins!"
    ELSE "Checkmate! Black wins!"

(* What an Update call leaves: the ChessGame fields, the Board calls it    *)
(* made, the inputs it asked raylib for, the square of the click it read   *)
(* and the return it took.                                                 *)
Updated(b, sel, picked, msg, calledSeq, polledInputs, click, why) ==
    [board |-> b, selectedSquare |-> sel, pieceSelected |-> picked, statusMessage |-> msg,
     called |-> calledSeq, polled |-> polledInputs, clicked |-> click, branch |-> why]

(* ChessGame::Update, lines 597-607: the U key. *)
UpdateUndo(g) ==
    LET u == UndoLastMoveRun(g.board)
    IN IF u.result
       THEN Updated(u.board, NoSquare, FALSE, "Undo successful!",
                    <<UndoCall(u)>>, "KEY_U", NoSquare, "undo")
       ELSE Updated(u.board, g.selectedSquare, g.pieceSelected, "No moves to undo!",
                    <<UndoCall(u)>>, "KEY_U", NoSquare, "undo")

(* ChessGame::Update, lines 617-624: a click with no piece selected. *)
UpdateSelect(g, clickedPos) ==
    LET p == GetPieceAtRun(g.board, clickedPos)
        own == ~IsNull(p) /\ p.color = g.board.currentTurn
    IN Updated(g.board, IF own THEN clickedPos ELSE g.selectedSquare,
               IF own THEN TRUE ELSE g.pieceSelected, "",
               <<PieceCall(g.board, clickedPos)>>, "KEY_U MOUSE_LEFT_BUTTON",
               clickedPos, "select")

(* ChessGame::Update, lines 629-659: after MovePiece returned o, leaving   *)
(* board b.                                                                *)
MoveClicked(g, clickedPos, o, b) ==
    IF o.result \in {"Success", "Check", "Checkmate"}
    THEN Updated(b, NoSquare, FALSE,
                 IF o.result = "Check"
                 THEN (IF b.currentTurn = White THEN "White is in check!"
                       ELSE "Black is in check!")
                 ELSE "",
                 <<MoveCall(g.board, g.selectedSquare, clickedPos, o)>>,
                 "KEY_U MOUSE_LEFT_BUTTON", clickedPos, "move")
    ELSE IF clickedPos = g.selectedSquare
         THEN Updated(b, NoSquare, FALSE, "",
                      <<MoveCall(g.board, g.selectedSquare, clickedPos, o)>>,
                      "KEY_U MOUSE_LEFT_BUTTON", clickedPos, "move")
         ELSE Updated(b,
                      IF ~IsNull(GetPieceAtRun(b, clickedPos))
                         /\ GetPieceAtRun(b, clickedPos).color = b.currentTurn
                      THEN clickedPos ELSE g.selectedSquare,
                      g.pieceSelected, "",
                      <<MoveCall(g.board, g.selectedSquare, clickedPos, o),
                        PieceCall(b, clickedPos)>>,
                      "KEY_U MOUSE_LEFT_BUTTON", clickedPos, "move")

(* ChessGame::Update, lines 625-659: a click with a piece selected. *)
UpdateMove(g, clickedPos) ==
    LET o == MovePieceRun(g.board, g.selectedSquare, clickedPos)
    IN MoveClicked(g, clickedPos, o, BoardOf(o))

(* ChessGame::Update, lines 597-660: what follows the gameOver test. *)
UpdateInPlay(g, in) ==
    IF in.keyU THEN UpdateUndo(g)
    ELSE IF in.mouse
         THEN LET clickedPos == Vector2Int(TruncDiv(in.mx, TILE_SIZE),
                                           TruncDiv(in.my, TILE_SIZE))
              IN IF ~g.pieceSelected THEN UpdateSelect(g, clickedPos)
                 ELSE UpdateMove(g, clickedPos)
         ELSE Updated(g.board, g.selectedSquare, g.pieceSelected, "",
                      <<>>, "KEY_U MOUSE_LEFT_BUTTON", NoSquare, "idle")

(* Update without the gameOver test. *)
UpdateIgnoringGameOver(g, in) == UpdateInPlay(g, in)

(* ChessGame::Update *)
UpdateRun(g, in) ==
    IF g.board.gameOver
    THEN Updated(g.board, g.selectedSquare, g.pieceSelected, GameOverMessage(g.board),
                 <<>>, "", NoSquare, "gameOver")
    ELSE UpdateInPlay(g, in)

(* What raylib reports as pressed in the frame. *)
Pressed(in) ==
    IF in.keyU THEN (IF in.mouse THEN "KEY_U MOUSE_LEFT_BUTTON" ELSE "KEY_U")
    ELSE IF in.mouse THEN "MOUSE_LEFT_BUTTON" ELSE ""

(* The call Update() made in game g with input in, with outcome r. *)
UpdateCall(g, in, r) ==
    [op |-> "Update", result |-> r.statusMessage, reason |-> r.branch,
     from |-> g.selectedSquare, to |-> NoSquare,
     fromKind |-> r.polled, toKind |-> Pressed(in)]

(* The state an Update call leaves.  trace lists the Board calls made. *)
AfterUpdate(g, in, r) ==
    [board |-> r.board, last |-> UpdateCall(g, in, r),
     pre |-> [board |-> g.board, last |-> g.last, before |-> g.pre.board],
     trace |-> g.trace \o r.called,
     positions |-> IF \E i \in DOMAIN r.called :
                         r.called[i].op = "MovePiece" /\ r.called[i].reason = "committed"
                   THEN Append(SubSeq(g.positions, 1, Len(g.board.history)), g.board)
                   ELSE g.positions,
     returned |-> r.statusMessage,
     selectedSquare |-> r.selectedSquare, pieceSelected |-> r.pieceSelected,
     statusMessage |-> r.statusMessage]

(* ChessGame::ChessGame followed by ChessGame::Init. *)
NewChessGame ==
    [board |-> NewBoard, last |-> NoCall,
     pre |-> [board |-> NewBoard, last |-> NoCall, before |-> NewBoard],
     trace |-> <<>>, positions |-> <<>>, returned |-> "None",
     selectedSquare |-> NoSquare, pieceSelected |-> FALSE, statusMessage |-> ""]

(* A frame with a left click in the middle of tile (x, y), the U key up. *)
ClickAt(x, y) ==
    [keyU |-> FALSE, mouse |-> TRUE,
     mx |-> TILE_SIZE * x + TILE_SIZE \div 2, my |-> TILE_SIZE * y + TILE_SIZE \div 2]

(* The clicks that play the moves of line: on from, then on to. *)
ClicksOf(line) ==
    [i \in 1 .. (2 * Len(line)) |->
        IF i % 2 = 1
        THEN ClickAt(line[(i + 1) \div 2][1], line[(i + 1) \div 2][2])
        ELSE ClickAt(line[i \div 2][3], line[i \div 2][4])]

RECURSIVE Replay(_, _)
(* The game after the Update calls of frames that g has not seen yet: the  *)
(* calls replayed so far are as many as the Board calls made, because each *)
(* frame of a session is a click that makes one.                           *)
Replay(g, frames) ==
    IF Len(g.trace) >= Len(frames) THEN g
    ELSE Replay(AfterUpdate(g, frames[Len(g.trace) + 1],
                            UpdateRun(g, frames[Len(g.trace) + 1])),
                frames)

(* Sessions played on a new game: nothing yet; a first move; the moves     *)
(* before the mate, with the queen picked up, and the mate; the same for   *)
(* the stalemate; and the game in which White is in check with a pawn that *)
(* can capture on its last rank.                                           *)
Sessions ==
    {<<>>, ClicksOf(FoolsMateOpening),
     ClicksOf(FoolsMateLine) \o <<ClickAt(3, 0)>>, ClicksOf(FoolsMate),
     ClicksOf(StalemateLine) \o <<ClickAt(2, 0)>>, ClicksOf(Stalemated),
     ClicksOf(CheckedLine)}

(* The mouse positions of a click: the middle of each tile and, below the  *)
(* board, the middle of the status area of each column.                    *)
MousePoints ==
    {<<TILE_SIZE * x + TILE_SIZE \div 2, TILE_SIZE * y + TILE_SIZE \div 2>> :
        x \in Coords, y \in 0 .. BOARD_SIZE}

(* The input of a frame: IsKeyPressed(KEY_U), IsMouseButtonPressed(        *)
(* MOUSE_LEFT_BUTTON), GetMouseX() and GetMouseY().                        *)
Inputs ==
    {[keyU |-> k, mouse |-> m, mx |-> p[1], my |-> p[2]] :
        k \in BOOLEAN, m \in BOOLEAN, p \in MousePoints}

Game ==
    [board |-> Board, last |-> last, pre |-> pre, trace |-> trace, positions |-> positions,
     returned |-> returned, selectedSquare |-> selectedSquare,
     pieceSelected |-> pieceSelected, statusMessage |-> statusMessage]

StartGames == {Replay(NewChessGame, frames) : frames \in Sessions}

GameInit ==
    /\ \E g \in StartGames :
          /\ squares = g.board.squares
          /\ currentTurn = g.board.currentTurn
          /\ gameOver = g.board.gameOver
          /\ winner = g.board.winner
          /\ history = g.board.history
          /\ last = g.last
          /\ pre = g.pre
          /\ trace = g.trace
          /\ positions = g.positions
          /\ returned = g.returned
          /\ selectedSquare = g.selectedSquare
          /\ pieceSelected = g.pieceSelected
          /\ statusMessage = g.statusMessage
    /\ calls = 0

(* A call game.Update() in a frame with input in. *)
Update(in) ==
    /\ calls < MaxUpdates
    /\ \E g \in {AfterUpdate(Game, in, UpdateRun(Game, in))} :
          /\ squares' = g.board.squares
          /\ currentTurn' = g.board.currentTurn
          /\ gameOver' = g.board.gameOver
          /\ winner' = g.board.winner
          /\ history' = g.board.history
          /\ last' = g.last
          /\ pre' = g.pre
          /\ trace' = g.trace
          /\ positions' = g.positions
          /\ returned' = g.returned
          /\ selectedSquare' = g.selectedSquare
          /\ pieceSelected' = g.pieceSelected
          /\ statusMessage' = g.statusMessage
    /\ calls' = calls + 1

GameNext == \E in \in Inputs : Update(in)

GameSpec == GameInit /\ [][GameNext]_vars

(***************************************************************************)
(* Chess geometry, stated from the rules and not from the move generators. *)
(***************************************************************************)

Abs(n) == IF n < 0 THEN -n ELSE n
Sgn(n) == IF n > 0 THEN 1 ELSE IF n < 0 THEN -1 ELSE 0
Longest(m, n) == IF m > n THEN m ELSE n

(* Every square strictly between a and t, on a common line, is empty. *)
ClearBetween(sq, a, t) ==
    \A k \in 1 .. (Longest(Abs(t.x - a.x), Abs(t.y - a.y)) - 1) :
        sq[a.y + k * Sgn(t.y - a.y)][a.x + k * Sgn(t.x - a.x)].type = None

OnFileOrRank(a, t) == a # t /\ (a.x = t.x \/ a.y = t.y)
OnDiagonal(a, t) == a # t /\ Abs(t.x - a.x) = Abs(t.y - a.y)

(* The piece standing on square a attacks square t. *)
Threatens(sq, a, t) ==
    LET p == sq[a.y][a.x]
        dx == Abs(t.x - a.x)
        dy == Abs(t.y - a.y)
    IN CASE p.type = "Pawn" ->
               dx = 1 /\ t.y = a.y + (IF p.color = White THEN -1 ELSE 1)
         [] p.type = "Knight" -> (dx = 1 /\ dy = 2) \/ (dx = 2 /\ dy = 1)
         [] p.type = "King" -> Longest(dx, dy) = 1
         [] p.type = "Rook" -> OnFileOrRank(a, t) /\ ClearBetween(sq, a, t)
         [] p.type = "Bishop" -> OnDiagonal(a, t) /\ ClearBetween(sq, a, t)
         [] p.type = "Queen" ->
               (OnFileOrRank(a, t) \/ OnDiagonal(a, t)) /\ ClearBetween(sq, a, t)
         [] OTHER -> FALSE

(* Some piece of colour by attacks square t. *)
Attacked(sq, t, by) ==
    \E a \in Squares : sq[a.y][a.x].color = by /\ Threatens(sq, a, t)

KingSquares(sq, color) ==
    {v \in Squares : sq[v.y][v.x].type = "King" /\ sq[v.y][v.x].color = color}

KingAttacked(sq, color) ==
    \E k \in KingSquares(sq, color) : Attacked(sq, k, Opposite(color))

(* The side color has a pseudo-legal move after which its king is not attacked. *)
LegalMoveExists(sq, color) ==
    \E f \in Squares :
        /\ sq[f.y][f.x].color = color
        /\ \E i \in DOMAIN GetValidMoves(sq[f.y][f.x], sq) :
              LET t == GetValidMoves(sq[f.y][f.x], sq)[i]
                  after == Relocated(sq, f, t,
                                     [sq[f.y][f.x] EXCEPT !.boardPosition = t,
                                                          !.hasMoved = TRUE])
              IN ~KingAttacked(after, color)

Results == {"Success", "Check", "Checkmate", "Stalemate"}

(* The latest call was a MovePiece that committed / that was rolled back. *)
MoveCommitted == last.op = "MovePiece" /\ last.result \in Results
MoveRolledBack == last.op = "MovePiece" /\ last.reason = "selfCheck"

Mover == pre.board.currentTurn

SamePieces(sq1, sq2) ==
    \A v \in Squares :
        /\ sq1[v.y][v.x].type = sq2[v.y][v.x].type
        /\ sq1[v.y][v.x].color = sq2[v.y][v.x].color

SameMovedFlags(sq1, sq2) ==
    \A v \in Squares : sq1[v.y][v.x].hasMoved = sq2[v.y][v.x].hasMoved

(***************************************************************************)
(* The claims.                                                             *)
(***************************************************************************)

(* C1: after a MovePiece call that returns Success, Check, Checkmate or    *)
(* Stalemate, no opposing piece attacks a king of the mover, and the mover *)
(* has a king on the board if it had one before the call.                  *)
C1_LegalityClosure ==
    MoveCommitted =>
        /\ ~KingAttacked(squares, Mover)
        /\ KingSquares(pre.board.squares, Mover) # {} => KingSquares(squares, Mover) # {}

(* A committed move made while the mover's king was attacked. *)
C1_Witness ==
    /\ calls > 0
    /\ MoveCommitted
    /\ KingAttacked(pre.board.squares, Mover)

(* C2: UndoLastMove right after a MovePiece that committed returns true    *)
(* and leaves the squares, currentTurn, gameOver, winner and the history   *)
(* as they were before that MovePiece.                                     *)
C2_UndoIsInverse ==
    (last.op = "UndoLastMove" /\ pre.last.op = "MovePiece" /\ pre.last.result \in Results)
        => (last.result = "true" /\ Board = pre.before)

(* The undo of a capture that promoted the capturing pawn. *)
C2_Witness ==
    /\ calls > 0
    /\ last.op = "UndoLastMove"
    /\ pre.last.op = "MovePiece"
    /\ pre.last.result \in Results
    /\ pre.board.history[Len(pre.board.history)].promotionOccurred
    /\ ~IsNull(pre.board.history[Len(pre.board.history)].capturedPiece)
    /\ squares[pre.last.from.y][pre.last.from.x].type = "Pawn"
    /\ ~IsNull(squares[pre.last.to.y][pre.last.to.x])

(* C3: after a MovePiece call that returns Invalid because the move left   *)
(* the mover's king in check, every square holds a piece of the same type  *)
(* and colour as before the call, or is empty as before.                   *)
C3_RollbackRestoresPieces ==
    (calls > 0 /\ MoveRolledBack) => SamePieces(squares, pre.board.squares)

(* C4: after such a call the hasMoved flag of every piece is what it was   *)
(* before the call.                                                        *)
C4_RollbackRestoresMovedFlags ==
    (calls > 0 /\ MoveRolledBack) => SameMovedFlags(squares, pre.board.squares)

(* C5: a MovePiece call that returns Success, Check, Checkmate or          *)
(* Stalemate gives the turn to the other colour; one that returns Invalid  *)
(* leaves currentTurn as it was.                                           *)
C5_TurnAlternation ==
    last.op = "MovePiece" =>
        /\ last.result \in Results => currentTurn = Opposite(pre.board.currentTurn)
        /\ last.result = "Invalid" => currentTurn = pre.board.currentTurn
        /\ last.result \in Results \cup {"Invalid"}

(* A committed move right after a move that was rolled back. *)
C5_Witness ==
    /\ calls > 0
    /\ MoveCommitted
    /\ pre.last.reason = "selfCheck"
    /\ pre.last.result = "Invalid"

(* C6: a MovePiece call made when the game is over, or with a point off    *)
(* the board, or from an empty square or from a piece of the side not to   *)
(* move, or to a square holding a piece of the mover's colour, or to any   *)
(* square the validMoves test refuses, returns Invalid before anything is  *)
(* applied and leaves the squares, currentTurn, gameOver, winner and the   *)
(* history unchanged.                                                      *)
C6_RejectionChangesNothing ==
    (/\ last.op = "MovePiece"
     /\ \/ pre.board.gameOver
        \/ last.fromKind \in {"off", "empty", "opponent"}
        \/ last.toKind \in {"off", "own"}
        \/ last.reason = "notValid")
        => /\ last.result = "Invalid"
           /\ last.reason \in {"gameOver", "bounds", "empty", "turn", "notValid"}
           /\ Board = pre.board

(* A call from a piece of the side to move to a square of its own colour. *)
C6_Witness ==
    /\ calls > 0
    /\ last.op = "MovePiece"
    /\ ~pre.board.gameOver
    /\ last.fromKind = "own"
    /\ last.toKind = "own"

(* C7: the board holds exactly one White king and exactly one Black king. *)
C7_OneKingEach ==
    /\ Cardinality(KingSquares(squares, White)) = 1
    /\ Cardinality(KingSquares(squares, Black)) = 1

(* C8: the result of a committed move classifies the new side to move:     *)
(* Checkmate iff it is in check and has no legal move, Stalemate iff it is *)
(* not in check and has no legal move, Check iff it is in check and has a  *)
(* legal move, Success iff it is not in check and has a legal move.        *)
C8_ResultClassification ==
    MoveCommitted =>
        /\ last.result = "Checkmate"
              <=> (KingAttacked(squares, currentTurn) /\ ~LegalMoveExists(squares, currentTurn))
        /\ last.result = "Stalemate"
              <=> (~KingAttacked(squares, currentTurn) /\ ~LegalMoveExists(squares, currentTurn))
        /\ last.result = "Check"
              <=> (KingAttacked(squares, currentTurn) /\ LegalMoveExists(squares, currentTurn))
        /\ last.result = "Success"
              <=> (~KingAttacked(squares, currentTurn) /\ LegalMoveExists(squares, currentTurn))

(* A move that stalemates the other side. *)
C8_Witness ==
    /\ calls > 0
    /\ MoveCommitted
    /\ last.result = "Stalemate"
    /\ ~KingAttacked(squares, currentTurn)

(* C9: after Checkmate gameOver is true and winner is the mover; after     *)
(* Stalemate gameOver is true and winner is None; after Success or Check   *)
(* gameOver is false and winner is None.                                   *)
C9_GameOverTracksResult ==
    MoveCommitted =>
        /\ last.result = "Checkmate" => (gameOver /\ winner = Mover)
        /\ last.result = "Stalemate" => (gameOver /\ winner = None)
        /\ last.result \in {"Success", "Check"} => (~gameOver /\ winner = None)

(* A move that checkmates. *)
C9_Witness ==
    /\ calls > 0
    /\ MoveCommitted
    /\ last.result = "Checkmate"
    /\ winner = Mover

(* C10: while the game is over every MovePiece call returns Invalid and    *)
(* changes nothing, and gameOver becomes false again only by a successful  *)
(* UndoLastMove.                                                           *)
C10_GameOverIsFinal ==
    pre.board.gameOver =>
        /\ last.op = "MovePiece" => (last.result = "Invalid" /\ Board = pre.board)
        /\ ~gameOver => (last.op = "UndoLastMove" /\ last.result = "true")

(* After a checkmate, a call to move a piece of the mated side to a square *)
(* its move generator offers.                                              *)
C10_Witness ==
    /\ calls > 0
    /\ last.op = "MovePiece"
    /\ pre.last.result = "Checkmate"
    /\ pre.board.gameOver
    /\ last.fromKind = "own"
    /\ last.toKind \in {"empty", "opponent"}
    /\ gameOver

(* C11: UndoLastMove on an empty history returns false and leaves the      *)
(* squares, currentTurn, gameOver, winner and the history unchanged.       *)
C11_UndoOnEmptyHistory ==
    (last.op = "UndoLastMove" /\ pre.board.history = <<>>)
        => (last.result = "false" /\ Board = pre.board)

(* An UndoLastMove call made on a board with no move recorded. *)
C11_Witness ==
    /\ calls > 0
    /\ last.op = "UndoLastMove"
    /\ pre.board.history = <<>>
    /\ history = <<>>

(* The calls made so far are MovePiece calls, the last of them committed,  *)
(* followed by UndoLastMove calls only.                                    *)
Unwinding ==
    /\ trace # <<>>
    /\ trace[Len(trace)].op = "UndoLastMove"
    /\ \A i \in DOMAIN trace : trace[i].op \in {"MovePiece", "UndoLastMove"}
    /\ \A i \in 1 .. (Len(trace) - 1) :
          trace[i].op = "UndoLastMove" => trace[i + 1].op = "UndoLastMove"
    /\ \A i \in 1 .. (Len(trace) - 1) :
          (trace[i].op = "MovePiece" /\ trace[i + 1].op = "UndoLastMove")
              => trace[i].result \in Results

(* C12: when committed moves, with Invalid calls among them, are followed  *)
(* by UndoLastMove calls only, an UndoLastMove returns true exactly when a *)
(* move is still recorded, it leaves the board as it was when the move it  *)
(* takes back was made, and the one that empties the history leaves the    *)
(* board of Initialize with White to move.                                 *)
C12_HistoryIsLifo ==
    (calls > 0 /\ Unwinding) =>
        /\ last.result = "true" <=> pre.board.history # <<>>
        /\ last.result = "true" => Board = positions[Len(history) + 1]
        /\ (last.result = "true" /\ history = <<>>) => Board = NewBoard

(* The piece the latest applied move took from its from square. *)
MovedPiece == pre.board.squares[last.from.y][last.from.x]

(* The latest applied move took a White pawn to rank 0 or a Black pawn to  *)
(* rank 7.                                                                 *)
LandsOnLastRank ==
    /\ MovedPiece.type = "Pawn"
    /\ \/ (MovedPiece.color = White /\ last.to.y = 0)
       \/ (MovedPiece.color = Black /\ last.to.y = 7)

(* C13: a committed move that takes a White pawn to rank 0 or a Black pawn *)
(* to rank 7 leaves on the destination a Queen of the pawn's colour with   *)
(* boardPosition the destination and hasMoved false; any other committed   *)
(* move leaves there a piece of the type that moved; and no committed move *)
(* changes the type of a piece on any other square.                        *)
C13_PromotionDeterminism ==
    MoveCommitted =>
        /\ LandsOnLastRank =>
              squares[last.to.y][last.to.x]
                  = [type |-> "Queen", color |-> MovedPiece.color,
                     boardPosition |-> last.to, hasMoved |-> FALSE]
        /\ ~LandsOnLastRank => squares[last.to.y][last.to.x].type = MovedPiece.type
        /\ squares[last.from.y][last.from.x].type = None
        /\ \A v \in Squares \ {last.from, last.to} :
              squares[v.y][v.x].type = pre.board.squares[v.y][v.x].type

(* A Black pawn captures on rank 7 and is promoted. *)
C13_Witness ==
    /\ calls > 0
    /\ MoveCommitted
    /\ LandsOnLastRank
    /\ MovedPiece.color = Black
    /\ pre.board.squares[last.to.y][last.to.x].color = White
    /\ squares[last.to.y][last.to.x].type = "Queen"

(* The calls made so far are the first n of FoolsMate, all committed. *)
FoolsMatePlayed(n) ==
    /\ Len(trace) = n
    /\ \A i \in 1 .. n :
          /\ trace[i].op = "MovePiece"
          /\ trace[i].reason = "committed"
          /\ <<trace[i].from.x, trace[i].from.y, trace[i].to.x, trace[i].to.y>> = FoolsMate[i]

(* The n-th call of FoolsMate. *)
FoolsMateCall(n) ==
    MovePiece(Vector2Int(FoolsMate[n][1], FoolsMate[n][2]),
              Vector2Int(FoolsMate[n][3], FoolsMate[n][4]))

(* C14: on a new board MovePiece((5,6),(5,5)), MovePiece((4,1),(4,3)) and  *)
(* MovePiece((6,6),(6,4)) return Success and then MovePiece((3,0),(7,4))   *)
(* returns Checkmate, leaving gameOver true and winner Black.              *)
C14_FoolsMate ==
    [][\A n \in 1 .. 4 :
          (FoolsMatePlayed(n - 1) /\ FoolsMateCall(n))
              => /\ last'.result = (IF n = 4 THEN "Checkmate" ELSE "Success")
                 /\ n = 4 => (gameOver' /\ winner' = Black)]_vars

(* The four calls were made and the last one mated. *)
C14_Witness ==
    /\ calls > 0
    /\ FoolsMatePlayed(4)
    /\ \A i \in 1 .. 3 : trace[i].result = "Success"
    /\ last.result = "Checkmate"
    /\ gameOver
    /\ winner = Black

(* The piece of the standard starting position on file x of a back rank. *)
StartingPiece(x) ==
    CASE x \in {0, 7} -> "Rook"
      [] x \in {1, 6} -> "Knight"
      [] x \in {2, 5} -> "Bishop"
      [] x = 3 -> "Queen"
      [] x = 4 -> "King"

(* The standard starting position: Black on rows 0 and 1, White on rows 6  *)
(* and 7, every piece unmoved and knowing its own square.                  *)
StartingLayout(sq) ==
    \A v \in Squares :
        sq[v.y][v.x] =
            CASE v.y = 0 -> [type |-> StartingPiece(v.x), color |-> Black,
                             boardPosition |-> v, hasMoved |-> FALSE]
              [] v.y = 1 -> [type |-> "Pawn", color |-> Black,
                             boardPosition |-> v, hasMoved |-> FALSE]
              [] v.y = 6 -> [type |-> "Pawn", color |-> White,
                             boardPosition |-> v, hasMoved |-> FALSE]
              [] v.y = 7 -> [type |-> StartingPiece(v.x), color |-> White,
                             boardPosition |-> v, hasMoved |-> FALSE]
              [] OTHER -> NullPiece

(* C15: right after Initialize the board holds the standard position with  *)
(* White to move, gameOver false and an empty history; MovePiece((4,6),    *)
(* (4,4)) made then returns Success, puts the White pawn on (4,4), empties *)
(* (4,6) and gives the turn to Black.                                      *)
C15_StartingPosition ==
    /\ [](trace = <<>> =>
             /\ StartingLayout(squares)
             /\ Cardinality({v \in Squares : squares[v.y][v.x].type # None}) = 32
             /\ currentTurn = White
             /\ ~gameOver
             /\ history = <<>>)
    /\ [][(trace = <<>> /\ MovePiece(Vector2Int(4, 6), Vector2Int(4, 4)))
            => /\ last'.result = "Success"
               /\ squares'[4][4].type = "Pawn"
               /\ squares'[4][4].color = White
               /\ squares'[4][4].boardPosition = Vector2Int(4, 4)
               /\ squares'[6][4].type = None
               /\ currentTurn' = Black]_vars

(* The first call on a new board was MovePiece((4,6),(4,4)). *)
C15_Witness ==
    /\ calls > 0
    /\ Len(trace) = 1
    /\ last.op = "MovePiece"
    /\ last.from = Vector2Int(4, 6)
    /\ last.to = Vector2Int(4, 4)
    /\ StartingLayout(pre.board.squares)
    /\ squares[4][4].type = "Pawn"
    /\ currentTurn = Black

(* C16: MovePiece with from or to off the board returns Invalid by the     *)
(* bounds test (or by the gameOver test before it) and changes nothing;    *)
(* GetPieceAt with a position off the board returns no piece.              *)
C16_OutOfBounds ==
    /\ [][\A a \in Probes \X Probes :
              ((a[1] \in OffBoard \/ a[2] \in OffBoard)
               /\ last'.op = "MovePiece" /\ MovePiece(a[1], a[2]))
                  => /\ last'.result = "Invalid"
                     /\ last'.reason \in {"gameOver", "bounds"}
                     /\ Board' = Board]_vars
    /\ []((last.op = "GetPieceAt" /\ ~InBounds(last.from.x, last.from.y))
             => (IsNull(returned) /\ Board = pre.board))

(* A call to move a piece of the side to move to a point off the board. *)
C16_Witness ==
    /\ calls > 0
    /\ last.op = "MovePiece"
    /\ last.reason = "bounds"
    /\ last.fromKind = "own"
    /\ last.toKind = "off"

(* C17: a HasLegalMoves call, whatever it returns, leaves every square     *)
(* with the piece it held (type, colour, boardPosition, hasMoved) and      *)
(* leaves currentTurn, gameOver, winner and the history unchanged; and     *)
(* the HasLegalMoves call made inside a committed MovePiece leaves every   *)
(* square the move did not touch as it was.                                *)
C17_HasLegalMovesIsPure ==
    /\ last.op = "HasLegalMoves" => (Board = pre.board /\ returned \in BOOLEAN)
    /\ MoveCommitted =>
          \A v \in Squares \ {last.from, last.to} :
              squares[v.y][v.x] = pre.board.squares[v.y][v.x]

(* HasLegalMoves tried every move of the mated side and returned false. *)
C17_Witness ==
    /\ calls > 0
    /\ last.op = "HasLegalMoves"
    /\ returned = FALSE
    /\ last.fromKind = "own"
    /\ KingAttacked(squares, currentTurn)
    /\ \E v \in Squares :
          /\ squares[v.y][v.x].color = currentTurn
          /\ GetValidMoves(squares[v.y][v.x], squares) # <<>>

(* The piece GetValidMoves was called on, and the squares it returned. *)
Queried == squares[last.from.y][last.from.x]
Targets == {returned[i] : i \in DOMAIN returned}

(* The squares a pawn of colour color on p may move to: one rank forward   *)
(* if empty; two ranks forward from its starting rank if both squares are  *)
(* empty; a diagonal-forward square that holds a piece of the other colour.*)
PawnTargets(sq, p, color) ==
    LET forward == IF color = White THEN -1 ELSE 1
        startingRank == IF color = White THEN 6 ELSE 1
    IN {t \in Squares :
           \/ /\ t = Vector2Int(p.x, p.y + forward)
              /\ sq[t.y][t.x].type = None
           \/ /\ t = Vector2Int(p.x, p.y + 2 * forward)
              /\ p.y = startingRank
              /\ sq[p.y + forward][p.x].type = None
              /\ sq[t.y][t.x].type = None
           \/ /\ t.y = p.y + forward
              /\ Abs(t.x - p.x) = 1
              /\ sq[t.y][t.x].color = Opposite(color)}

(* C18: GetValidMoves on a pawn returns exactly the square one rank        *)
(* forward if it is on the board and empty, the square two ranks forward   *)
(* if the pawn is on its starting rank and both squares are empty, and     *)
(* each diagonal-forward square that is on the board and holds a piece of  *)
(* the other colour.                                                       *)
C18_PawnMoves ==
    (last.op = "GetValidMoves" /\ Queried.type = "Pawn")
        => Targets = PawnTargets(squares, last.from, Queried.color)

(* A pawn on its starting rank whose one-step square is empty and whose    *)
(* two-step square is occupied: the one-step square alone is returned.     *)
C18_Witness ==
    /\ last.op = "GetValidMoves"
    /\ Queried.type = "Pawn"
    /\ last.from.y = (IF Queried.color = White THEN 6 ELSE 1)
    /\ squares[IF Queried.color = White THEN 4 ELSE 3][last.from.x].type # None
    /\ Cardinality(Targets) = 1
    /\ \E t \in Targets : t.x = last.from.x /\ squares[t.y][t.x].type = None

(* The squares a piece on p reaches along the lines it moves on: every     *)
(* square with only empty squares between p and it that is empty or holds  *)
(* a piece of the other colour.                                            *)
LineTargets(sq, p, straight, diagonal) ==
    {t \in Squares :
        /\ (straight /\ OnFileOrRank(p, t)) \/ (diagonal /\ OnDiagonal(p, t))
        /\ ClearBetween(sq, p, t)
        /\ sq[t.y][t.x].color # sq[p.y][p.x].color}

(* C19: every square GetValidMoves returns is on the board, is not the     *)
(* piece's own square and is empty or holds a piece of the other colour;   *)
(* for a Rook, Bishop or Queen the squares returned are, along each of its *)
(* directions, the empty squares up to the first occupied square, and that *)
(* square if it holds a piece of the other colour.                         *)
C19_GeneratedTargets ==
    last.op = "GetValidMoves" =>
        /\ \A t \in Targets :
              /\ t \in Squares
              /\ t # last.from
              /\ squares[t.y][t.x].color # Queried.color
        /\ Queried.type = "Rook" => Targets = LineTargets(squares, last.from, TRUE, FALSE)
        /\ Queried.type = "Bishop" => Targets = LineTargets(squares, last.from, FALSE, TRUE)
        /\ Queried.type = "Queen" => Targets = LineTargets(squares, last.from, TRUE, TRUE)

(* A Queen with a capture at the end of one line and a piece of its own    *)
(* colour closing another.                                                 *)
C19_Witness ==
    /\ last.op = "GetValidMoves"
    /\ Queried.type = "Queen"
    /\ \E t \in Targets : squares[t.y][t.x].color = Opposite(Queried.color)
    /\ \E v \in Squares :
          /\ OnFileOrRank(last.from, v) \/ OnDiagonal(last.from, v)
          /\ ClearBetween(squares, last.from, v)
          /\ squares[v.y][v.x].color = Queried.color
          /\ v \notin Targets

(* C20: after Initialize and after every MovePiece, UndoLastMove,          *)
(* HasLegalMoves and GetPieceAt call, whatever it returned, every piece    *)
(* standing on a square has that square as its boardPosition.              *)
C20_PositionConsistency ==
    \A v \in Squares :
        squares[v.y][v.x].type # None => squares[v.y][v.x].boardPosition = v

(* A promotion that was rolled back: the piece put back on the from square *)
(* is the Queen made on the to square.                                     *)
C20_Witness ==
    /\ calls > 0
    /\ MoveRolledBack
    /\ pre.board.squares[last.from.y][last.from.x].type = "Pawn"
    /\ squares[last.from.y][last.from.x].type = "Queen"
    /\ squares[last.from.y][last.from.x].boardPosition = last.from
    /\ squares[last.to.y][last.to.x].boardPosition = last.to

(* The calls made so far that committed a move, and those that took one    *)
(* back.                                                                   *)
CommittedCalls ==
    {i \in DOMAIN trace : trace[i].op = "MovePiece" /\ trace[i].result \in Results}
SuccessfulUndos ==
    {i \in DOMAIN trace : trace[i].op = "UndoLastMove" /\ trace[i].result = "true"}

(* C21: the size of the history is the number of MovePiece calls that      *)
(* committed minus the number of UndoLastMove calls that returned true; a  *)
(* MovePiece call that returns Invalid leaves the history as it was; and   *)
(* currentTurn is White exactly when the size of the history is even.      *)
C21_TurnHistoryParity ==
    /\ Len(history) = Cardinality(CommittedCalls) - Cardinality(SuccessfulUndos)
    /\ (last.op = "MovePiece" /\ last.result = "Invalid") => history = pre.board.history
    /\ currentTurn = White <=> Len(history) % 2 = 0

(* A second move taken back, after a game with a rolled-back move in it:   *)
(* an odd number of moves is left and Black is to move.                    *)
C21_Witness ==
    /\ calls > 0
    /\ last.op = "UndoLastMove"
    /\ last.result = "true"
    /\ \E i \in DOMAIN trace : trace[i].op = "MovePiece" /\ trace[i].reason = "selfCheck"
    /\ \E i \in SuccessfulUndos : i < Len(trace)
    /\ Len(history) % 2 = 1
    /\ currentTurn = Black

(* Some call MovePiece(from, to) made now would not return Invalid. *)
SomeMoveCommits ==
    \E from \in Squares : \E to \in Squares :
        MovePieceRun(Board, from, to).result # "Invalid"

(* C22: while gameOver is false some MovePiece call would not return       *)
(* Invalid; and HasLegalMoves(currentTurn) is true exactly when some       *)
(* MovePiece call would commit.                                            *)
C22_NoDeadEnd ==
    /\ ~gameOver => SomeMoveCommits
    /\ HasLegalMoves(squares, currentTurn).result <=> SomeMoveCommits

(* The number of pieces of a colour on the squares, of pieces on the       *)
(* squares, and of history records that hold a captured piece.             *)
PiecesOf(sq, color) == Cardinality({v \in Squares : sq[v.y][v.x].color = color})
PiecesOn(sq) == Cardinality({v \in Squares : sq[v.y][v.x].type # None})
CapturesRecorded(hist) ==
    Cardinality({i \in DOMAIN hist : hist[i].capturedPiece.type # None})

(* C23: the pieces on the board and the history records holding a captured *)
(* piece are 32 together; a committed move to an occupied square removes   *)
(* one piece of the other colour and none of the mover's, a committed move *)
(* to an empty square and a MovePiece that returns Invalid remove none;    *)
(* only UndoLastMove adds a piece, and only the one its record holds.      *)
C23_PieceConservation ==
    /\ PiecesOn(squares) + CapturesRecorded(history) = 32
    /\ MoveCommitted =>
          /\ PiecesOf(squares, Mover) = PiecesOf(pre.board.squares, Mover)
          /\ PiecesOf(squares, Opposite(Mover))
                = PiecesOf(pre.board.squares, Opposite(Mover))
                  - (IF pre.board.squares[last.to.y][last.to.x].type # None THEN 1 ELSE 0)
          /\ pre.board.squares[last.to.y][last.to.x].color # Mover
    /\ (last.op = "MovePiece" /\ last.result = "Invalid") =>
          \A color \in {White, Black} :
              PiecesOf(squares, color) = PiecesOf(pre.board.squares, color)
    /\ last.op # "UndoLastMove" => PiecesOn(squares) <= PiecesOn(pre.board.squares)
    /\ last.op = "UndoLastMove" =>
          PiecesOn(squares)
              = PiecesOn(pre.board.squares)
                + CapturesRecorded(pre.board.history) - CapturesRecorded(history)

(* A capture that was rolled back, in a game with captures recorded: the   *)
(* piece on the to square is back.                                         *)
C23_Witness ==
    /\ calls > 0
    /\ MoveRolledBack
    /\ pre.board.squares[last.to.y][last.to.x].type # None
    /\ squares[last.to.y][last.to.x] = pre.board.squares[last.to.y][last.to.x]
    /\ CapturesRecorded(history) > 0
    /\ PiecesOn(squares) < 32

(* C24: once gameOver is true every Update call returns at the gameOver    *)
(* test, before it asks for the U key or the mouse button: it calls        *)
(* neither MovePiece nor UndoLastMove nor any other operation of the       *)
(* board, and the squares, currentTurn, gameOver, winner and the history   *)
(* stay as they are, whatever is pressed.                                  *)
C24_FinishedGameIsFixed ==
    [][gameOver =>
          /\ last'.op = "Update"
          /\ last'.reason = "gameOver"
          /\ last'.fromKind = ""
          /\ trace' = trace
          /\ Board' = Board
          /\ gameOver']_vars

(* The mate was given by a click, and in a later frame with the U key      *)
(* pressed the finished game, with its moves still recorded, stayed as it  *)
(* was; UndoLastMove called on that board would make gameOver false.       *)
C24_Witness ==
    /\ calls > 0
    /\ last.op = "Update"
    /\ last.toKind \in {"KEY_U", "KEY_U MOUSE_LEFT_BUTTON"}
    /\ pre.board.gameOver
    /\ gameOver
    /\ winner = Black
    /\ history # <<>>
    /\ Board = pre.board
    /\ \E i \in DOMAIN trace : trace[i].op = "MovePiece" /\ trace[i].result = "Checkmate"
    /\ UndoLastMoveRun(Board).result
    /\ ~UndoLastMoveRun(Board).board.gameOver

====
